---- MODULE Spec2Model ----
(***************************************************************************)
(* A model of ClickHouseClient (the client orchestrator) and of the        *)
(* configuration resolution it runs at construction.                       *)
(*                                                                         *)
(* Texts (query texts, table names, host URLs) are sequences of tokens; a  *)
(* token is a one-character string, or a word the client itself writes     *)
(* ("FORMAT", "INSERT", a format name, a URL scheme).  An optional value   *)
(* (a field that may be undefined) is a sequence of length 0 or 1.         *)
(*                                                                         *)
(* Every call of an async method is a slot of `calls`: the synchronous     *)
(* part of the method up to its first await is one action, the settling of *)
(* the awaited promise by the collaborator is one action, and the          *)
(* continuation after the await is one action.                             *)
(*                                                                         *)
(* Fields the client passes through untouched and no property reads        *)
(* (query_params, abort_signal, credentials, compression, logging) are not *)
(* part of the state.                                                      *)
(***************************************************************************)
EXTENDS Integers, Sequences, FiniteSets, TLC

VARIABLES
    config,               \* the options given to the constructor (None before it ran)
    client,               \* the ClickHouseClient object: its private fields, and how construction ended
    makeConnectionCalls,  \* how many times config.impl.make_connection was invoked
    calls,                \* per call slot: the method, its parameters, locals, and position
    streams               \* per response stream of the connection: "free", "open" or "closed"

vars == <<config, client, makeConnectionCalls, calls, streams>>

-----------------------------------------------------------------------------
(* Bounds *)

\* Longest query text the caller passes.
MaxLen == 2

\* Number of call slots, i.e. of calls that can be in flight at once.
MaxCalls == 2

-----------------------------------------------------------------------------
(* Optional values *)

None == <<>>

Some(v) == <<v>>

Opt(S) == {None} \cup {Some(v) : v \in S}

\* a ?? b
Coalesce(opt, default) == IF opt = None THEN default ELSE opt[1]

\* a || b on strings: the empty string is falsy too
OrElse(opt, default) == IF opt = None \/ opt[1] = "" THEN default ELSE opt[1]

-----------------------------------------------------------------------------
(* Input domains *)

Chars == {"a", ";", " "}

Texts == UNION {[1..n -> Chars] : n \in 0..MaxLen}

Formats == {"JSON", "JSONEachRow", "CSV"}

Tables == {<<"t">>, <<" ", "t", " ">>}

\* Shapes of InsertValues: an in-memory array, a JSON envelope, and a value
\* that is none of the accepted shapes.
InsertValues == {"array", "envelope", "scalar"}

EmptySettings == [k \in {} |-> 0]

ConnectionSettings == {("k1" :> 1), ("k1" :> 1) @@ ("k2" :> 1)}

CallSettings == {("k1" :> 2), ("k3" :> 3)}

SessionIds == {"s1"}

QueryIds == {"q1"}

Errors == {"ECONNREFUSED", "ETIMEDOUT"}

\* Host strings: scheme, ":", "//", host name.
Hosts ==
    { <<"http", ":", "//", "h">>,
      <<"https", ":", "//", "h">>,
      <<"HTTP", ":", "//", "h">>,
      <<"tcp", ":", "//", "h">>,
      <<"ftp", ":", "//", "h">>,
      <<"http", ":", "//">>,
      <<"h">>,
      <<>> }

Timeouts == {1000, 60000}

Configs ==
    [ host : Opt(Hosts),
      request_timeout : Opt(Timeouts),
      clickhouse_settings : Opt(ConnectionSettings),
      session_id : Opt(SessionIds) ]

Calls == 1..MaxCalls

StreamIds == 1..MaxCalls

-----------------------------------------------------------------------------
(* Text helpers: String.prototype.trim, removeTrailingSemi, formatQuery *)

IsSpace(ch) == ch \in {" ", "\n", "\t"}

RECURSIVE trimStart(_)
trimStart(s) ==
    IF s # <<>> /\ IsSpace(Head(s)) THEN trimStart(Tail(s)) ELSE s

RECURSIVE trimEnd(_)
trimEnd(s) ==
    IF s # <<>> /\ IsSpace(s[Len(s)]) THEN trimEnd(SubSeq(s, 1, Len(s) - 1)) ELSE s

trim(s) == trimEnd(trimStart(s))

\* The for loop of removeTrailingSemi, entered at i: the value lastNonSemiIdx
\* has when the loop ends.  query[i - 1] of the source is query[i] here
\* (sequences count from 1).
RECURSIVE semiLoop(_, _)
semiLoop(query, i) ==
    IF i > 0
    THEN IF query[i] # ";" THEN i ELSE semiLoop(query, i - 1)
    ELSE Len(query)

removeTrailingSemi(query) ==
    LET lastNonSemiIdx == semiLoop(query, Len(query))
    IN  IF lastNonSemiIdx # Len(query)
        THEN SubSeq(query, 1, lastNonSemiIdx)
        ELSE query

\* ' \nFORMAT ' followed by the format name
FormatClause(format) == <<" ", "\n", "FORMAT", " ", format>>

formatQuery(query, format) ==
    removeTrailingSemi(trim(query)) \o FormatClause(format)

-----------------------------------------------------------------------------
(* Configuration resolution *)

DefaultHost == <<"http", ":", "//", "localhost", ":", "8123">>

DefaultRequestTimeout == 300000

SpecialSchemes == {"http", "https", "ftp", "ws", "wss"}

toLowerCase(scheme) == IF scheme = "HTTP" THEN "http" ELSE scheme

\* new URL(host): a scheme and ":" are required, the scheme is lower-cased,
\* and a special scheme needs a non-empty host.
URL(host) ==
    IF Len(host) >= 2 /\ host[1] \notin {":", "//"} /\ host[2] = ":"
       /\ (toLowerCase(host[1]) \in SpecialSchemes => Len(host) >= 4)
    THEN [threw |-> FALSE, protocol |-> toLowerCase(host[1]) \o ":"]
    ELSE [threw |-> TRUE, protocol |-> ""]

createUrl(host) == URL(host)

getConnectionParams(cfg) ==
    [ url |-> createUrl(Coalesce(cfg.host, DefaultHost)),
      request_timeout |-> Coalesce(cfg.request_timeout, DefaultRequestTimeout),
      clickhouse_settings |-> Coalesce(cfg.clickhouse_settings, EmptySettings) ]

\* TRUE when validateConnectionParams returns, FALSE when it throws
validateConnectionParams(connectionParams) ==
    ~(connectionParams.url.protocol # "http:" /\ connectionParams.url.protocol # "https:")

NewClient ==
    [ state |-> "new", error |-> "", connectionParams |-> None,
      sessionId |-> None, connection |-> FALSE ]

\* A constructor that makes the connection before it validates the parameters.
constructorConnectFirst(cfg) ==
    LET connectionParams == getConnectionParams(cfg)
    IN  IF connectionParams.url.threw
        THEN [ client |-> [NewClient EXCEPT !.state = "failed",
                                            !.error = "malformed url"],
               made |-> 0 ]
        ELSE [ client |-> [NewClient EXCEPT
                             !.state = IF validateConnectionParams(connectionParams)
                                       THEN "ready" ELSE "failed",
                             !.error = IF validateConnectionParams(connectionParams)
                                       THEN "" ELSE "unsupported protocol",
                             !.connectionParams = Some(connectionParams),
                             !.sessionId = cfg.session_id,
                             !.connection = TRUE],
               made |-> 1 ]

\* The constructor: the object it leaves and the number of make_connection
\* invocations it made.  A throw ends it where it happens.
constructor(cfg) ==
    LET connectionParams == getConnectionParams(cfg)
    IN  IF connectionParams.url.threw
        THEN [ client |-> [NewClient EXCEPT !.state = "failed",
                                            !.error = "malformed url"],
               made |-> 0 ]
        ELSE IF ~validateConnectionParams(connectionParams)
        THEN [ client |-> [NewClient EXCEPT !.state = "failed",
                                            !.error = "unsupported protocol",
                                            !.connectionParams = Some(connectionParams),
                                            !.sessionId = cfg.session_id],
               made |-> 0 ]
        ELSE [ client |-> [NewClient EXCEPT !.state = "ready",
                                            !.connectionParams = Some(connectionParams),
                                            !.sessionId = cfg.session_id,
                                            !.connection = TRUE],
               made |-> 1 ]

-----------------------------------------------------------------------------
(* Call slots *)

IdleCall ==
    [ op |-> "", pc |-> "idle", params |-> None, format |-> "",
      req |-> None, resp |-> None, ret |-> None, err |-> "", close |-> "",
      log |-> <<>> ]

NoCalls == [c \in Calls |-> IdleCall]

NoStreams == [s \in StreamIds |-> "free"]


-----------------------------------------------------------------------------
(* Per-call parameters *)

CallParams(queries, tables, values, formats, settings, queryIds, sessionIds) ==
    [ query : queries, table : tables, values : values, format : formats,
      clickhouse_settings : settings, query_id : queryIds, session_id : sessionIds ]

QueryParams ==
    CallParams(Texts, {<<>>}, {""}, Opt(Formats), Opt(CallSettings),
               Opt(QueryIds), Opt(SessionIds))

ExecParams ==
    CallParams(Texts, {<<>>}, {""}, {None}, Opt(CallSettings),
               Opt(QueryIds), Opt(SessionIds))

InsertParams ==
    CallParams({<<>>}, Tables, InsertValues, Opt(Formats), Opt(CallSettings),
               Opt(QueryIds), Opt(SessionIds))

\* { ...a, ...b }
Spread(a, b) ==
    [k \in (DOMAIN a) \cup (DOMAIN b) |-> IF k \in DOMAIN b THEN b[k] ELSE a[k]]

\* getQueryParams with the spread order swapped: the connection default wins.
getQueryParamsDefaultsWin(params) ==
    [ clickhouse_settings |->
          Spread(Coalesce(params.clickhouse_settings, EmptySettings),
                 client.connectionParams[1].clickhouse_settings),
      query_id |-> params.query_id,
      session_id |-> client.sessionId ]

getQueryParams(params) ==
    [ clickhouse_settings |->
          Spread(client.connectionParams[1].clickhouse_settings,
                 Coalesce(params.clickhouse_settings, EmptySettings)),
      query_id |-> params.query_id,
      session_id |-> client.sessionId ]

\* The object literal { query, values?, ...this.getQueryParams(params) } handed
\* to a method of the connection.
Request(method, query, values, params) ==
    [ method |-> method, query |-> query, values |-> values,
      clickhouse_settings |-> getQueryParams(params).clickhouse_settings,
      query_id |-> getQueryParams(params).query_id,
      session_id |-> getQueryParams(params).session_id ]

PingRequest ==
    [ method |-> "ping", query |-> <<>>, values |-> None,
      clickhouse_settings |-> EmptySettings, query_id |-> None, session_id |-> None ]

\* An invocation of one of the injected collaborators (config.impl).
Invocation(fn, format, stream, query_id) ==
    [fn |-> fn, format |-> format, stream |-> stream, query_id |-> query_id]

-----------------------------------------------------------------------------
(* Collaborators: the values encoder, the result set, the connection *)

\* TRUE when validateInsertValues returns, FALSE when it throws: an array fits
\* every format, a JSON envelope only the JSON document format.
validateInsertValues(values, format) ==
    values = "array" \/ (values = "envelope" /\ format = "JSON")

encodeValues(values, format) == [payload |-> values, format |-> format]

makeResultSet(stream, format, query_id) ==
    [stream |-> stream, format |-> format, query_id |-> query_id]

FreeStream == CHOOSE s \in StreamIds :
    streams[s] = "free" /\ \A t \in StreamIds : streams[t] = "free" => s <= t

\* The identifier the connection uses when the request carries none.
GeneratedQueryId(s) == "generated-" \o ToString(s)

Response(kind, stream, query_id, success, error) ==
    [kind |-> kind, stream |-> stream, query_id |-> query_id,
     success |-> success, error |-> error]

HasStream(method) == method \in {"query", "exec"}

\* The promise of connection.query / exec / insert / ping resolves.  query and
\* exec open a response stream.
ConnectionResolve(c) ==
    /\ calls[c].pc = "await_connection"
    /\ LET req == calls[c].req[1]
           s == IF HasStream(req.method) THEN FreeStream ELSE 0
       IN  /\ calls' = [calls EXCEPT
                  ![c].pc = "settled",
                  ![c].resp = Some(Response("resolved", s,
                                            Coalesce(req.query_id, GeneratedQueryId(s)),
                                            TRUE, ""))]
           /\ streams' = IF s = 0 THEN streams ELSE [streams EXCEPT ![s] = "open"]
    /\ UNCHANGED <<config, client, makeConnectionCalls>>

\* connection.ping resolves with a result that reports the failure.
ConnectionPingFailure(c, e) ==
    /\ calls[c].pc = "await_connection"
    /\ calls[c].req[1].method = "ping"
    /\ calls' = [calls EXCEPT
           ![c].pc = "settled",
           ![c].resp = Some(Response("resolved", 0, "", FALSE, e))]
    /\ UNCHANGED <<config, client, makeConnectionCalls, streams>>

\* The promise of the connection's method rejects (ping included: Connection is
\* an interface, and the implementation comes from config.impl.make_connection).
ConnectionReject(c, e) ==
    /\ calls[c].pc = "await_connection"
    /\ calls' = [calls EXCEPT
           ![c].pc = "settled",
           ![c].resp = Some(Response("rejected", 0, "", FALSE, e))]
    /\ UNCHANGED <<config, client, makeConnectionCalls, streams>>

\* The promise of close_stream(stream) resolves: the stream is closed.
CloseStreamResolve(c) ==
    /\ calls[c].pc = "await_close"
    /\ calls' = [calls EXCEPT ![c].pc = "close_settled", ![c].close = "resolved"]
    /\ streams' = [streams EXCEPT ![calls[c].resp[1].stream] = "closed"]
    /\ UNCHANGED <<config, client, makeConnectionCalls>>

\* The promise of close_stream(stream) rejects.
CloseStreamReject(c, e) ==
    /\ calls[c].pc = "await_close"
    /\ calls' = [calls EXCEPT ![c].pc = "close_settled", ![c].close = "rejected",
                              ![c].err = e]
    /\ UNCHANGED <<config, client, makeConnectionCalls, streams>>

-----------------------------------------------------------------------------
(* ClickHouseClient methods *)

Ready(c) == client.state = "ready" /\ calls[c].pc = "idle"

Started(op, params, format) ==
    [IdleCall EXCEPT !.op = op, !.pc = "await_connection",
                     !.params = Some(params), !.format = format]

Rejected(c) == calls[c].resp[1].kind = "rejected"

Throw(c, e) == [calls EXCEPT ![c].pc = "failed", ![c].err = e]

\* query, up to `await this.connection.query(...)`
query(c, params) ==
    /\ Ready(c)
    /\ LET format == Coalesce(params.format, "JSON")
           text == formatQuery(params.query, format)
       IN  calls' = [calls EXCEPT ![c] =
               [Started("query", params, format) EXCEPT
                   !.req = Some(Request("query", text, None, params))]]
    /\ UNCHANGED <<config, client, makeConnectionCalls, streams>>

\* A query that builds its result set from whichever response of the
\* connection has arrived, not from the one its own await produced.
queryAwaitAnyResponse(c) ==
    /\ calls[c].pc = "settled"
    /\ calls[c].op = "query"
    /\ \E d \in Calls :
         /\ calls[d].resp # None
         /\ calls' =
              IF calls[d].resp[1].kind = "rejected"
              THEN Throw(c, calls[d].resp[1].error)
              ELSE [calls EXCEPT
                      ![c].pc = "returned",
                      ![c].log = Append(@, Invocation("make_result_set", calls[c].format,
                                                      calls[d].resp[1].stream,
                                                      calls[d].resp[1].query_id)),
                      ![c].ret = Some(makeResultSet(calls[d].resp[1].stream, calls[c].format,
                                                    calls[d].resp[1].query_id))]
    /\ UNCHANGED <<config, client, makeConnectionCalls, streams>>

\* query, after the await: `return this.makeResultSet(stream, format, query_id)`
queryAwait(c) ==
    /\ calls[c].pc = "settled"
    /\ calls[c].op = "query"
    /\ LET resp == calls[c].resp[1]
       IN  calls' =
             IF Rejected(c)
             THEN Throw(c, resp.error)
             ELSE [calls EXCEPT
                     ![c].pc = "returned",
                     ![c].log = Append(@, Invocation("make_result_set", calls[c].format,
                                                     resp.stream, resp.query_id)),
                     ![c].ret = Some(makeResultSet(resp.stream, calls[c].format,
                                                   resp.query_id))]
    /\ UNCHANGED <<config, client, makeConnectionCalls, streams>>

\* The request exec hands to connection.exec
ExecRequest(params) ==
    Request("exec", removeTrailingSemi(trim(params.query)), None, params)

\* exec, up to `await this.connection.exec(...)`
exec(c, params) ==
    /\ Ready(c)
    /\ calls' = [calls EXCEPT ![c] =
           [Started("exec", params, "") EXCEPT !.req = Some(ExecRequest(params))]]
    /\ UNCHANGED <<config, client, makeConnectionCalls, streams>>

\* exec, after the await: `return await ...`
execAwait(c) ==
    /\ calls[c].pc = "settled"
    /\ calls[c].op = "exec"
    /\ LET resp == calls[c].resp[1]
       IN  calls' =
             IF Rejected(c)
             THEN Throw(c, resp.error)
             ELSE [calls EXCEPT
                     ![c].pc = "returned",
                     ![c].ret = Some([stream |-> resp.stream, query_id |-> resp.query_id])]
    /\ UNCHANGED <<config, client, makeConnectionCalls, streams>>

\* command, up to the await inside `await this.exec(params)`
command(c, params) ==
    /\ Ready(c)
    /\ calls' = [calls EXCEPT ![c] =
           [Started("command", params, "") EXCEPT !.req = Some(ExecRequest(params))]]
    /\ UNCHANGED <<config, client, makeConnectionCalls, streams>>

\* A command that starts close_stream and returns without awaiting it.
commandAwaitExecNoAwait(c) ==
    /\ calls[c].pc = "settled"
    /\ calls[c].op = "command"
    /\ LET resp == calls[c].resp[1]
       IN  calls' =
             IF Rejected(c)
             THEN Throw(c, resp.error)
             ELSE [calls EXCEPT
                     ![c].pc = "returned",
                     ![c].log = Append(@, Invocation("close_stream", "", resp.stream, "")),
                     ![c].ret = Some([query_id |-> resp.query_id])]
    /\ UNCHANGED <<config, client, makeConnectionCalls, streams>>

\* command, after exec settled: `await this.closeStream(stream)`
commandAwaitExec(c) ==
    /\ calls[c].pc = "settled"
    /\ calls[c].op = "command"
    /\ LET resp == calls[c].resp[1]
       IN  calls' =
             IF Rejected(c)
             THEN Throw(c, resp.error)
             ELSE [calls EXCEPT
                     ![c].pc = "await_close",
                     ![c].log = Append(@, Invocation("close_stream", "", resp.stream, ""))]
    /\ UNCHANGED <<config, client, makeConnectionCalls, streams>>

\* command, after close_stream settled: `return { query_id }`
commandAwaitClose(c) ==
    /\ calls[c].pc = "close_settled"
    /\ calls' =
         IF calls[c].close = "rejected"
         THEN [calls EXCEPT ![c].pc = "failed"]
         ELSE [calls EXCEPT
                 ![c].pc = "returned",
                 ![c].ret = Some([query_id |-> calls[c].resp[1].query_id])]
    /\ UNCHANGED <<config, client, makeConnectionCalls, streams>>

InsertStatement(table, format) ==
    <<"INSERT", " ", "INTO", " ">> \o trim(table) \o <<" ", "FORMAT", " ", format>>

\* An insert that encodes and sends without looking at the validation's outcome.
insertNoValidation(c, params) ==
    /\ Ready(c)
    /\ LET format == OrElse(params.format, "JSONCompactEachRow")
       IN  calls' = [calls EXCEPT ![c] =
               [Started("insert", params, format) EXCEPT
                   !.log = << Invocation("encodeValues", format, 0, "") >>,
                   !.req = Some(Request("insert", InsertStatement(params.table, format),
                                        Some(encodeValues(params.values, format)),
                                        params))]]
    /\ UNCHANGED <<config, client, makeConnectionCalls, streams>>

\* insert, up to `await this.connection.insert(...)`
insert(c, params) ==
    /\ Ready(c)
    /\ LET format == OrElse(params.format, "JSONCompactEachRow")
           validation == Invocation("validateInsertValues", format, 0, "")
       IN  calls' = [calls EXCEPT ![c] =
             IF ~validateInsertValues(params.values, format)
             THEN [Started("insert", params, format) EXCEPT
                     !.pc = "failed",
                     !.err = "validation",
                     !.log = <<validation>>]
             ELSE [Started("insert", params, format) EXCEPT
                     !.log = << validation, Invocation("encodeValues", format, 0, "") >>,
                     !.req = Some(Request("insert", InsertStatement(params.table, format),
                                          Some(encodeValues(params.values, format)),
                                          params))]]
    /\ UNCHANGED <<config, client, makeConnectionCalls, streams>>

\* insert, after the await: `return await ...`
insertAwait(c) ==
    /\ calls[c].pc = "settled"
    /\ calls[c].op = "insert"
    /\ LET resp == calls[c].resp[1]
       IN  calls' =
             IF Rejected(c)
             THEN Throw(c, resp.error)
             ELSE [calls EXCEPT ![c].pc = "returned",
                                ![c].ret = Some([query_id |-> resp.query_id])]
    /\ UNCHANGED <<config, client, makeConnectionCalls, streams>>

\* ping, up to `await this.connection.ping()`
ping(c) ==
    /\ Ready(c)
    /\ calls' = [calls EXCEPT ![c] =
           [IdleCall EXCEPT !.op = "ping", !.pc = "await_connection",
                            !.req = Some(PingRequest)]]
    /\ UNCHANGED <<config, client, makeConnectionCalls, streams>>

\* ping, after the await: `return await ...`
pingAwait(c) ==
    /\ calls[c].pc = "settled"
    /\ calls[c].op = "ping"
    /\ LET resp == calls[c].resp[1]
       IN  calls' =
             IF Rejected(c)
             THEN Throw(c, resp.error)
             ELSE [calls EXCEPT ![c].pc = "returned",
                                ![c].ret = Some([success |-> resp.success,
                                                 error |-> resp.error])]
    /\ UNCHANGED <<config, client, makeConnectionCalls, streams>>

\* The caller takes the outcome of the call (and is done with its stream, if
\* it was handed one); the slot is free for the caller's next call.
CallerContinues(c) ==
    /\ calls[c].pc \in {"returned", "failed"}
    /\ calls' = [calls EXCEPT ![c] = IdleCall]
    /\ streams' = IF calls[c].resp # None /\ calls[c].resp[1].stream # 0
                  THEN [streams EXCEPT ![calls[c].resp[1].stream] = "free"]
                  ELSE streams
    /\ UNCHANGED <<config, client, makeConnectionCalls>>

-----------------------------------------------------------------------------
(* Specifications *)

\* new ClickHouseClient(cfg)
Construct(cfg) ==
    /\ client.state = "new"
    /\ config' = Some(cfg)
    /\ client' = constructor(cfg).client
    /\ makeConnectionCalls' = makeConnectionCalls + constructor(cfg).made
    /\ UNCHANGED <<calls, streams>>

InitCtor ==
    /\ config = None
    /\ client = NewClient
    /\ makeConnectionCalls = 0
    /\ calls = NoCalls
    /\ streams = NoStreams

\* Construction alone, over every configuration.
NextCtor == \E cfg \in Configs : Construct(cfg)

SpecCtor == InitCtor /\ [][NextCtor]_vars

\* Configurations of the clients the call specifications start from.
ReadyConfigs ==
    [ host : {None}, request_timeout : {None},
      clickhouse_settings : Opt(ConnectionSettings),
      session_id : Opt(SessionIds) ]

\* The state right after new ClickHouseClient(cfg).
Init ==
    \E cfg \in ReadyConfigs :
        /\ config = Some(cfg)
        /\ client = constructor(cfg).client
        /\ makeConnectionCalls = constructor(cfg).made
        /\ calls = NoCalls
        /\ streams = NoStreams

\* One caller that awaits each call before it makes the next.
Next ==
    \/ \E params \in QueryParams : query(1, params)
    \/ \E params \in ExecParams : exec(1, params)
    \/ \E params \in ExecParams : command(1, params)
    \/ \E params \in InsertParams : insert(1, params)
    \/ ping(1)
    \/ ConnectionResolve(1)
    \/ \E e \in Errors : ConnectionPingFailure(1, e)
    \/ \E e \in Errors : ConnectionReject(1, e)
    \/ \E e \in Errors : CloseStreamReject(1, e)
    \/ CloseStreamResolve(1)
    \/ queryAwait(1)
    \/ execAwait(1)
    \/ commandAwaitExec(1)
    \/ commandAwaitClose(1)
    \/ insertAwait(1)
    \/ pingAwait(1)
    \/ CallerContinues(1)

Spec == Init /\ [][Next]_vars

\* The client of the concurrent callers: every option left to its default.
InitConcurrent ==
    LET cfg == [ host |-> None, request_timeout |-> None,
                 clickhouse_settings |-> None, session_id |-> None ]
    IN  /\ config = Some(cfg)
        /\ client = constructor(cfg).client
        /\ makeConnectionCalls = constructor(cfg).made
        /\ calls = NoCalls
        /\ streams = NoStreams

ConcurrentTexts == {<<"a">>, <<"a", ";">>}

ConcurrentQueryParams ==
    CallParams(ConcurrentTexts, {<<>>}, {""}, {None, Some("CSV")}, {None},
               Opt(QueryIds), {None})

\* Several query calls in flight at once on one client.
NextConcurrent ==
    \E c \in Calls :
        \/ \E params \in ConcurrentQueryParams : query(c, params)
        \/ ConnectionResolve(c)
        \/ \E e \in Errors : ConnectionReject(c, e)
        \/ queryAwait(c)
        \/ CallerContinues(c)

SpecConcurrent == InitConcurrent /\ [][NextConcurrent]_vars

-----------------------------------------------------------------------------
(* Properties *)

Sent(c) == calls[c].req # None

\* out is input without its maximal run of trailing ";"
TrailingRunRemoved(input, out) ==
    /\ Len(out) <= Len(input)
    /\ out = SubSeq(input, 1, Len(out))
    /\ \A i \in (Len(out) + 1)..Len(input) : input[i] = ";"
    /\ out # <<>> => out[Len(out)] # ";"

\* The text handed to the connection, before the FORMAT clause query appends.
TextBeforeFormat(c) ==
    LET text == calls[c].req[1].query
    IN  IF calls[c].op = "query" THEN SubSeq(text, 1, Len(text) - 5) ELSE text

\* C1: the text query and exec hand to the connection (before any FORMAT
\* clause) is the trimmed input without its maximal run of trailing ";": it
\* never ends in ";", also when the input is made of ";" only, and every
\* other character of the trimmed input is kept.
C1_TrailingTerminatorsStripped ==
    \A c \in Calls :
        (calls[c].op \in {"query", "exec"} /\ Sent(c)) =>
            TrailingRunRemoved(trim(calls[c].params[1].query), TextBeforeFormat(c))

\* C2: the settings handed to the connection for a query, exec, command or
\* insert call are the connection defaults overlaid key by key with the call's
\* clickhouse_settings (the call wins a shared key, every other default key is
\* present), and the client's defaults stay those of its configuration.
C2_EffectiveSettings ==
    LET defaults == Coalesce(config[1].clickhouse_settings, EmptySettings)
    IN  /\ client.connectionParams[1].clickhouse_settings = defaults
        /\ \A c \in Calls :
             (calls[c].op \in {"query", "exec", "command", "insert"} /\ Sent(c)) =>
                LET overlay == Coalesce(calls[c].params[1].clickhouse_settings, EmptySettings)
                    effective == calls[c].req[1].clickhouse_settings
                IN  /\ DOMAIN effective = (DOMAIN defaults) \cup (DOMAIN overlay)
                    /\ \A k \in DOMAIN overlay : effective[k] = overlay[k]
                    /\ \A k \in (DOMAIN defaults) \ (DOMAIN overlay) :
                         effective[k] = defaults[k]

\* A command went out with the call's k1 over the default's k1 and the
\* default's k2 kept, and has returned.
C2_Witness ==
    /\ calls[1].op = "command"
    /\ calls[1].pc = "returned"
    /\ config[1].clickhouse_settings = Some(("k1" :> 1) @@ ("k2" :> 1))
    /\ calls[1].params[1].clickhouse_settings = Some(("k1" :> 2))
    /\ calls[1].req[1].clickhouse_settings = ("k1" :> 2) @@ ("k2" :> 1)

\* The hosts of the model that are well-formed http or https URLs.
HttpHosts ==
    { DefaultHost, <<"http", ":", "//", "h">>, <<"https", ":", "//", "h">>,
      <<"HTTP", ":", "//", "h">> }

\* C3: construction with a malformed host, or a host whose scheme is neither
\* http nor https, fails with a configuration error and never invokes
\* make_connection; with an http or https URL it succeeds and invokes
\* make_connection exactly once.
C3_ConstructionValidatesUrl ==
    client.state # "new" =>
        IF Coalesce(config[1].host, DefaultHost) \in HttpHosts
        THEN /\ client.state = "ready"
             /\ client.connection
             /\ makeConnectionCalls = 1
        ELSE /\ client.state = "failed"
             /\ client.error \in {"malformed url", "unsupported protocol"}
             /\ ~client.connection
             /\ makeConnectionCalls = 0

\* Construction with a tcp:// host has failed on the protocol.
C3_Witness ==
    /\ config = Some([ host |-> Some(<<"tcp", ":", "//", "h">>), request_timeout |-> None,
                       clickhouse_settings |-> None, session_id |-> None ])
    /\ client.state = "failed"
    /\ client.error = "unsupported protocol"
    /\ makeConnectionCalls = 0

\* C4: ping never raises: whatever the connection's ping does (its promise
\* rejecting included), the client's ping ends with a result value, which
\* reports the failure.
C4_PingNeverRaises ==
    \A c \in Calls :
        calls[c].op = "ping" =>
            /\ calls[c].pc # "failed"
            /\ (calls[c].pc = "returned" /\ ~calls[c].resp[1].success) =>
                  ~calls[c].ret[1].success

CloseInvocations(c) == SelectSeq(calls[c].log, LAMBDA e : e.fn = "close_stream")

\* C5: a command whose exec succeeded returns only after close_stream was
\* invoked exactly once, on the stream exec returned, and has completed (the
\* stream is closed), and returns only exec's query_id; a command whose exec
\* failed fails with that error without invoking close_stream.
C5_CommandClosesStream ==
    \A c \in Calls :
        calls[c].op = "command" =>
            /\ calls[c].pc = "returned" =>
                  /\ calls[c].resp[1].kind = "resolved"
                  /\ Len(CloseInvocations(c)) = 1
                  /\ CloseInvocations(c)[1].stream = calls[c].resp[1].stream
                  /\ calls[c].close = "resolved"
                  /\ streams[calls[c].resp[1].stream] = "closed"
                  /\ calls[c].ret = Some([query_id |-> calls[c].resp[1].query_id])
            /\ (calls[c].resp # None /\ calls[c].resp[1].kind = "rejected") =>
                  /\ CloseInvocations(c) = <<>>
                  /\ calls[c].pc \in {"settled", "failed"}
                  /\ calls[c].pc = "failed" => calls[c].err = calls[c].resp[1].error
            /\ (calls[c].pc = "failed" /\ calls[c].resp[1].kind = "resolved") =>
                  calls[c].close = "rejected"

\* A command has returned the generated query_id, its stream closed.
C5_Witness ==
    /\ calls[1].op = "command"
    /\ calls[1].pc = "returned"
    /\ calls[1].ret = Some([query_id |-> "generated-1"])
    /\ streams[1] = "closed"

\* C6: insert validates the values against the format before it encodes or
\* sends anything: a failed validation fails the insert with the validation
\* error and neither encodeValues nor connection.insert is invoked; otherwise
\* validation, encoding and the statement INSERT INTO <trimmed table> FORMAT
\* <format> all use one format, the call's when it gives one.
C6_InsertValidatesFirst ==
    \A c \in Calls :
        calls[c].op = "insert" =>
            LET format == calls[c].log[1].format
                given == calls[c].params[1].format
            IN  /\ Len(calls[c].log) >= 1
                /\ calls[c].log[1].fn = "validateInsertValues"
                /\ given # None => format = given[1]
                /\ given = None => format = "JSONCompactEachRow"
                /\ IF ~validateInsertValues(calls[c].params[1].values, format)
                   THEN /\ calls[c].pc = "failed"
                        /\ calls[c].err = "validation"
                        /\ Len(calls[c].log) = 1
                        /\ ~Sent(c)
                   ELSE /\ Len(calls[c].log) = 2
                        /\ calls[c].log[2].fn = "encodeValues"
                        /\ calls[c].log[2].format = format
                        /\ Sent(c)
                        /\ calls[c].req[1].method = "insert"
                        /\ calls[c].req[1].values =
                              Some([payload |-> calls[c].params[1].values,
                                    format |-> format])
                        /\ calls[c].req[1].query =
                              <<"INSERT", " ", "INTO", " ", "t", " ", "FORMAT", " ", format>>

\* An insert of a JSON envelope in CSV format has failed validation with
\* nothing encoded or sent.
C6_Witness ==
    /\ calls[1].op = "insert"
    /\ calls[1].params[1].values = "envelope"
    /\ calls[1].params[1].format = Some("CSV")
    /\ calls[1].params[1].table = <<" ", "t", " ">>
    /\ calls[1].pc = "failed"
    /\ calls[1].err = "validation"
    /\ ~Sent(1)

\* The default the documentation of request_timeout states.
DocumentedRequestTimeout == 30000

\* C7: with request_timeout omitted from the configuration, the resolved
\* request_timeout is the documented default, 30_000 ms.
C7_DefaultRequestTimeout ==
    (client.state = "ready" /\ config[1].request_timeout = None) =>
        client.connectionParams[1].request_timeout = DocumentedRequestTimeout

\* C8: a query, exec, command or insert call that supplies a session_id hands
\* the connection a request carrying that session_id.
C8_CallSessionIdSent ==
    \A c \in Calls :
        (/\ calls[c].op \in {"query", "exec", "command", "insert"}
         /\ Sent(c)
         /\ calls[c].params[1].session_id # None) =>
            calls[c].req[1].session_id = calls[c].params[1].session_id

\* C9: exec hands connection.exec the trimmed input without its trailing
\* terminators and with no FORMAT clause appended, and returns the stream and
\* query_id the connection produced, the stream still open and close_stream
\* never invoked.
C9_ExecSendsStrippedTextReturnsLiveStream ==
    \A c \in Calls :
        calls[c].op = "exec" =>
            /\ Sent(c) =>
                  /\ calls[c].req[1].method = "exec"
                  /\ TrailingRunRemoved(trim(calls[c].params[1].query),
                                        calls[c].req[1].query)
            /\ calls[c].pc = "returned" =>
                  /\ calls[c].ret = Some([stream |-> calls[c].resp[1].stream,
                                          query_id |-> calls[c].resp[1].query_id])
                  /\ streams[calls[c].resp[1].stream] = "open"
                  /\ CloseInvocations(c) = <<>>

\* C10: for every query call, also with several in flight, the format in the
\* FORMAT clause of the text sent is the format given to make_result_set (the
\* call's format, else JSON), and the result set is built from the stream and
\* query_id the connection returned for that same call: no two calls share a
\* stream.
C10_QueryFormatAndOwnResponse ==
    \A c \in Calls :
        calls[c].op = "query" =>
            LET given == calls[c].params[1].format
                format == IF given = None THEN "JSON" ELSE given[1]
                text == calls[c].req[1].query
            IN  /\ Sent(c) =>
                      /\ Len(text) >= 5
                      /\ SubSeq(text, Len(text) - 4, Len(text)) =
                            <<" ", "\n", "FORMAT", " ", format>>
                /\ calls[c].pc = "returned" =>
                      /\ calls[c].resp[1].kind = "resolved"
                      /\ calls[c].ret = Some([stream |-> calls[c].resp[1].stream,
                                              format |-> format,
                                              query_id |-> calls[c].resp[1].query_id])
                      /\ calls[c].log =
                            << Invocation("make_result_set", format,
                                          calls[c].resp[1].stream,
                                          calls[c].resp[1].query_id) >>
                      /\ \A d \in Calls \ {c} :
                            (calls[d].op = "query" /\ calls[d].pc = "returned") =>
                                calls[d].ret[1].stream # calls[c].ret[1].stream

\* Two queries of different formats have both returned, the first call
\* holding the stream the connection opened second.
C10_Witness ==
    /\ calls[1].pc = "returned"
    /\ calls[2].pc = "returned"
    /\ calls[1].ret[1].format = "CSV"
    /\ calls[2].ret[1].format = "JSON"
    /\ calls[1].ret[1].stream = 2
    /\ calls[2].ret[1].stream = 1
    /\ calls[1].ret[1].query_id = "generated-2"

====
